---- MODULE Spec2Model ----
(***************************************************************************)
(* The CodeEditor component of geostyler                                   *)
(* (src/src/Component/CodeEditor/CodeEditor.tsx) as a state machine.       *)
(*                                                                         *)
(* The state is the component's React state (activeParser, isSldParser,    *)
(* value, invalidMessage, hasError), the two usePrevious refs, the props   *)
(* the host passes (style, parsers, defaultParser), the timers that        *)
(* handleOnChange scheduled with window.setTimeout, and the writeStyle and *)
(* readStyle promises that have not settled yet.  One action per handler;  *)
(* an action that changes state or props re-renders the component, which   *)
(* is where the render-local `let editTimeout` is created anew, and runs   *)
(* the effects of that render before anything else happens.                *)
(***************************************************************************)
EXTENDS Naturals, Sequences, FiniteSets

\* ------------------------------------------------------------------ bounds

\* The quiet interval `delay` in clock ticks.
DelayTicks == 1
\* How many keystrokes (handleOnChange calls) one behaviour holds.
MaxEdits == 2
\* How many times the host renders the component and the user selects a
\* parser or a unit in one behaviour.
MaxExternal == 1
\* How many parsers a `parsers` prop of the host holds at most.
MaxRegistry == 2
\* How many times the host renders the component and the user selects a
\* parser or a unit in a behaviour without keystrokes.
MaxRecover == 3

\* ------------------------------------------------------- the host's inputs

\* `undefined` as a parser: no parser is active.
NoParser == 0

\* The parser objects of the host.  1 is an SLD parser of version 1.1.0 and
\* 2 a QGIS parser; both are in the `parsers` prop.  3 is an SLD parser of
\* version 1.0.0, which the host may pass as defaultParser without listing
\* it.
ParserInstances == {1, 2, 3}

\* 4 is a parser whose title is the value of the editor's own first option.
RegistryParsers == ParserInstances \cup {4}

parsers == <<1, 2>>

\* The `parsers` props a host may pass: any list of parser objects.
Registries ==
    UNION {[1..n -> RegistryParsers] : n \in 0..MaxRegistry}

Title(p) ==
    CASE p = 1 -> "SLD Style Parser"
      [] p = 2 -> "QGIS Style Parser"
      [] p = 3 -> "SLD Style Parser"
      [] p = 4 -> "GeoStyler Style"

SldVersion(p) ==
    CASE p = 1 -> "1.1.0"
      [] p = 2 -> "undefined"
      [] p = 3 -> "1.0.0"
      [] p = 4 -> "undefined"

\* title.includes('SLD')
TitleIncludesSLD(p) == Title(p) = "SLD Style Parser"

Units == {"pixel", "m"}

\* The style objects the host passes, by content.
StyleVals == {"x", "y"}

\* A style prop: its content, and whether it is the object the component
\* rendered with last (ref 0) or a new object (ref 1).  All the component can
\* tell of a reference is whether it is the one of the previous render.
Styles == [val : StyleVals, ref : {0, 1}]

\* Texts: the format a text is written in, the style it describes and the
\* symbolizer units it was written with.
EmptyText == [fmt |-> "", body |-> "", units |-> ""]

SldText(s, u) == [fmt |-> "sld", body |-> s, units |-> u]
QmlText(s) == [fmt |-> "qml", body |-> s, units |-> "-"]
JsonText(s) == [fmt |-> "json", body |-> s, units |-> "-"]
JunkText == [fmt |-> "junk", body |-> "", units |-> ""]

\* The texts the user types.
UserTexts == {SldText("y", "pixel"), JsonText("y"), JunkText}

\* ------------------------------------------------- parsers (host-supplied)

\* writeStyle of parser p holding symbolizer units u, on style content s:
\* resolves with an output, resolves with errors, or rejects.
WriteStyle(p, u, s) ==
    IF TitleIncludesSLD(p)
    THEN IF s = "y"
         THEN [kind |-> "reject", output |-> EmptyText]
         ELSE [kind |-> "ok", output |-> SldText(s, u)]
    ELSE IF s = "y"
         THEN [kind |-> "errors", output |-> EmptyText]
         ELSE [kind |-> "ok", output |-> QmlText(s)]

\* readStyle of parser p on text t.
ReadStyle(p, t) ==
    IF TitleIncludesSLD(p)
    THEN CASE t.fmt = "sld" ->
                [kind |-> "ok", output |-> t.body, errors |-> <<>>, message |-> ""]
           [] t.fmt = "junk" ->
                [kind |-> "reject", output |-> "undefined", errors |-> <<>>,
                 message |-> "XML parse error"]
           [] OTHER ->
                [kind |-> "errors", output |-> "undefined",
                 errors |-> <<"not an SLD", "no StyledLayerDescriptor">>,
                 message |-> ""]
    ELSE IF t.fmt = "qml"
         THEN [kind |-> "ok", output |-> t.body, errors |-> <<>>, message |-> ""]
         ELSE [kind |-> "errors", output |-> "undefined",
               errors |-> <<"not a QML">>, message |-> ""]

\* JSON.stringify(s, null, 2)
JsonStringify(s) == JsonText(s)

\* JSON.parse(v): the parsed style, or a SyntaxError thrown.
JsonParse(t) ==
    IF t.fmt = "json"
    THEN [kind |-> "ok", output |-> t.body, message |-> ""]
    ELSE [kind |-> "throw", output |-> "undefined",
          message |-> "Unexpected token in JSON"]

\* errors.map(e => e.message).join(', ')
RECURSIVE JoinMessages(_)
JoinMessages(errs) ==
    IF Len(errs) = 0 THEN ""
    ELSE IF Len(errs) = 1 THEN errs[1]
    ELSE errs[1] \o ", " \o JoinMessages(Tail(errs))


\* ------------------------------------------------------------------- state

VARIABLES
    style,            \* prop: the style the host passes
    defaultParser,    \* prop: the parser the host passed at mount
    activeParser,     \* useState(defaultParser)
    isSldParser,      \* useState(false)
    value,            \* useState('')
    invalidMessage,   \* useState('')
    hasError,         \* useState(false)
    previousStyle,    \* usePrevious(style): the style of the previous render
    previouseParser,  \* usePrevious(activeParser)
    symbolizerUnits,  \* the symbolizerUnits field of each parser object
    editTimeout,      \* the current render's `let editTimeout` (0: undefined)
    timers,           \* the window.setTimeout timers pending, oldest first
    nextTimer,        \* the id window.setTimeout returns next
    writes,           \* the writeStyle promises pending, oldest first
    reads,            \* the readStyle promises pending, oldest first
    onStyleChangeCount,  \* how often the host's onStyleChange was called
    lastStyleChange,     \* the argument of its last call
    registry,            \* prop: the `parsers` list the host passes
    externals            \* how many renders by the host and selections are left

vars == <<style, defaultParser, activeParser, isSldParser, value,
          invalidMessage, hasError, previousStyle, previouseParser,
          symbolizerUnits, editTimeout, timers, nextTimer, writes, reads,
          onStyleChangeCount, lastStyleChange, registry, externals>>

\* ----------------------------------------------------------------- helpers

Remove(seq, i) == SubSeq(seq, 1, i - 1) \o SubSeq(seq, i + 1, Len(seq))

\* The style object s once the component has rendered with it.
Rendered(s) == [s EXCEPT !.ref = 0]

\* _isEqual on two styles: by content.
IsSameStyleObject(a, b) == a = b
IsEqualStyle(a, b) == a.val = b.val

\* _isEqual on two parsers: the same object, or two objects with equal fields.
IsEqualParser(a, b) ==
    \/ a = b
    \/ /\ a # NoParser
       /\ b # NoParser
       /\ Title(a) = Title(b)
       /\ SldVersion(a) = SldVersion(b)
       /\ symbolizerUnits[a] = symbolizerUnits[b]

\* The condition of the change effect, line 151, in a render with style s and
\* active parser p.
NeedsUpdate(s, p) ==
    ~IsEqualStyle(previousStyle, s) \/ ~IsEqualParser(previouseParser, p)

\* A state setter that changes the state re-renders the component: the
\* function body runs again and `let editTimeout` is a new, undefined variable.
StateChanged ==
    \/ activeParser' # activeParser
    \/ isSldParser' # isSldParser
    \/ value' # value
    \/ invalidMessage' # invalidMessage
    \/ hasError' # hasError

\* The symbolizerUnits a writeStyle of parser p reads.
UnitsOf(p) == IF p # NoParser THEN symbolizerUnits[p] ELSE "-"

\* updateValueFromStyle(s) of a render whose activeParser is p, the parser's
\* units being u: the fault is cleared, then writeStyle is called (its promise
\* pending) or, with no parser, the value is set at once.
UpdateValueFromStyle(p, u, s) ==
    /\ hasError' = FALSE
    /\ IF p # NoParser
       THEN /\ writes' = Append(writes, [parser |-> p, style |-> s.val, units |-> u])
            /\ value' = value
       ELSE /\ writes' = writes
            /\ value' = JsonStringify(s.val)

\* The effects of a render with style s and active parser p: the change
\* effect (lines 150-154), the isSldParser effect (lines 156-158) and the
\* usePrevious refs.
Effects(s, p) ==
    /\ IF NeedsUpdate(s, p)
       THEN UpdateValueFromStyle(p, UnitsOf(p), s)
       ELSE UNCHANGED <<hasError, writes, value>>
    /\ isSldParser' = IF previouseParser # p
                      THEN p # NoParser /\ TitleIncludesSLD(p)
                      ELSE isSldParser
    /\ previousStyle' = Rendered(s)
    /\ previouseParser' = p

\* parsers.find(p => p.title === selection)
ParserFindAnyInstance(selection) ==
    LET hits == {q \in ParserInstances : Title(q) = selection}
    IN  IF hits = {} THEN NoParser
        ELSE CHOOSE q \in hits : \A r \in hits : r <= q
ParserFind(selection) ==
    LET hits == {i \in 1..Len(registry) : Title(registry[i]) = selection}
    IN  IF hits = {} THEN NoParser
        ELSE registry[CHOOSE i \in hits : \A j \in hits : i <= j]

\* The values of the format select's options.
ParserOptions ==
    {"GeoStyler Style"} \cup {Title(registry[i]) : i \in 1..Len(registry)}

ParserHasUnitSelect ==
    isSldParser /\ activeParser # NoParser /\ SldVersion(activeParser) # "1.0.0"

\* parserHasUnitSelect in the render that follows a state change, before the
\* effects of that render have run: activeParser is the new one already,
\* isSldParser still the one the effect of the previous render set.
RenderedUnitSelect ==
    isSldParser /\ activeParser' # NoParser /\ SldVersion(activeParser') # "1.0.0"

\* clearTimeout(id)
ClearTimeout(ts, id) == SelectSeq(ts, LAMBDA t : t.id # id)

\* onStyleChange(arg), the host's callback
OnStyleChange(arg) ==
    /\ onStyleChangeCount' = onStyleChangeCount + 1
    /\ lastStyleChange' = arg

\* Whether onChange reaches its call of onStyleChange (line 179) after
\* readStyle settled as `kind`: a rejection jumps to the catch block; a
\* resolved promise, with or without errors, falls through to the call.
OnChangeNotifies(kind) == kind \in {"ok", "errors"}

\* Whether updateValueFromStyle raises the fault after writeStyle settled as
\* `kind`.  The executor of `new Promise(async () => ...)` never calls reject
\* and the promise its async function returns is dropped, so a rejection of
\* writeStyle settles nothing and the .catch handler never runs.
WriteSetsErrorNever(kind) == FALSE
WriteSetsError(kind) == kind = "errors"

\* What onChange sets the value to at its start: setValue(v), line 165.
CommittedValueKept(t) == value
CommittedValueCleared(t) == EmptyText
CommittedValue(t) == t.v

\* One more render by the host or selection by the user.
External ==
    /\ externals > 0
    /\ externals' = externals - 1

\* ----------------------------------------------------------------- actions

\* The state after construction: the first render with the style and the
\* defaultParser of the host, and its effects (usePrevious returns undefined
\* in the first render, so the change effect serializes the style).
Mounted ==
    /\ style \in {s \in Styles : s.ref = 0}
    /\ defaultParser \in {NoParser} \cup ParserInstances
    /\ activeParser = defaultParser
    /\ isSldParser = (defaultParser # NoParser /\ TitleIncludesSLD(defaultParser))
    /\ value = IF defaultParser = NoParser THEN JsonStringify(style.val) ELSE EmptyText
    /\ invalidMessage = ""
    /\ hasError = FALSE
    /\ previousStyle = style
    /\ previouseParser = defaultParser
    /\ symbolizerUnits = [p \in RegistryParsers |-> "pixel"]
    /\ editTimeout = 0
    /\ timers = <<>>
    /\ nextTimer = 1
    /\ writes = IF defaultParser = NoParser THEN <<>>
                ELSE <<[parser |-> defaultParser, style |-> style.val,
                        units |-> "pixel"]>>
    /\ reads = <<>>
    /\ onStyleChangeCount = 0
    /\ lastStyleChange = "none"

Init ==
    /\ registry = parsers
    /\ externals = MaxExternal
    /\ Mounted

\* The host renders the component with style s: the same object again, or
\* a new object of any content.
HostRender(s) ==
    /\ s.ref = 0 => s = style
    /\ External
    /\ style' = Rendered(s)
    /\ Effects(s, activeParser)
    /\ editTimeout' = 0
    /\ UNCHANGED <<defaultParser, activeParser, invalidMessage,
                   symbolizerUnits, timers, nextTimer, reads,
                   onStyleChangeCount, lastStyleChange, registry>>

\* onParserSelect(selection), lines 185-188
OnParserSelect(selection) ==
    /\ ~hasError
    /\ External
    /\ activeParser' = ParserFind(selection)
    /\ IF activeParser' # activeParser
       THEN /\ Effects(style, activeParser')
            /\ editTimeout' = 0
       ELSE UNCHANGED <<hasError, writes, value, isSldParser, previousStyle,
                        previouseParser, editTimeout>>
    /\ UNCHANGED <<style, defaultParser, invalidMessage, symbolizerUnits,
                   timers, nextTimer, reads, onStyleChangeCount,
                   lastStyleChange, registry>>

\* onUnitSelect(selection), lines 190-196
OnUnitSelect(selection) ==
    /\ ~hasError
    /\ ParserHasUnitSelect
    /\ External
    /\ IF activeParser # NoParser
       THEN /\ symbolizerUnits' = [symbolizerUnits EXCEPT ![activeParser] = selection]
            /\ UpdateValueFromStyle(activeParser, selection, style)
       ELSE UNCHANGED <<symbolizerUnits, hasError, writes, value>>
    /\ UNCHANGED <<style, defaultParser, activeParser, isSldParser,
                   invalidMessage, previousStyle, previouseParser, timers,
                   nextTimer, reads, onStyleChangeCount, lastStyleChange,
                   registry>>
    /\ editTimeout' = IF StateChanged THEN 0 ELSE editTimeout

\* handleOnChange(v), lines 198-206: a keystroke in the editor
HandleOnChange(v) ==
    /\ ~hasError
    /\ nextTimer <= MaxEdits
    /\ timers' = Append(ClearTimeout(timers, editTimeout),
                    [id |-> nextTimer, v |-> v, parser |-> activeParser,
                     left |-> DelayTicks])
    /\ editTimeout' = nextTimer
    /\ nextTimer' = nextTimer + 1
    /\ UNCHANGED <<style, defaultParser, activeParser, isSldParser, value,
                   invalidMessage, hasError, previousStyle, previouseParser,
                   symbolizerUnits, writes, reads, onStyleChangeCount,
                   lastStyleChange, registry, externals>>

\* One tick of the clock; a timer that is due fires before the next tick.
Tick ==
    /\ timers # <<>>
    /\ \A i \in 1..Len(timers) : timers[i].left > 0
    /\ timers' = [i \in 1..Len(timers) |->
                    [timers[i] EXCEPT !.left = timers[i].left - 1]]
    /\ UNCHANGED <<style, defaultParser, activeParser, isSldParser, value,
                   invalidMessage, hasError, previousStyle, previouseParser,
                   symbolizerUnits, editTimeout, nextTimer, writes, reads,
                   onStyleChangeCount, lastStyleChange, registry, externals>>

\* The oldest timer fires: onChange(v) of the render that scheduled it, lines
\* 164-183, up to its await (with a parser) or to its end (without).
TimerFire ==
    /\ timers # <<>>
    /\ Head(timers).left = 0
    /\ LET t == Head(timers) IN
       /\ timers' = Tail(timers)
       /\ value' = CommittedValue(t)
       /\ IF t.parser # NoParser
          THEN /\ invalidMessage' = "undefined"
               /\ reads' = Append(reads, [parser |-> t.parser, v |-> t.v])
               /\ UNCHANGED <<onStyleChangeCount, lastStyleChange>>
          ELSE /\ reads' = reads
               /\ IF JsonParse(t.v).kind = "ok"
                  THEN /\ invalidMessage' = "undefined"
                       /\ OnStyleChange(JsonParse(t.v).output)
                  ELSE /\ invalidMessage' = JsonParse(t.v).message
                       /\ UNCHANGED <<onStyleChangeCount, lastStyleChange>>
    /\ UNCHANGED <<style, defaultParser, activeParser, isSldParser, hasError,
                   previousStyle, previouseParser, symbolizerUnits, nextTimer,
                   writes, registry, externals>>
    /\ editTimeout' = IF StateChanged THEN 0 ELSE editTimeout

\* A readStyle promise settles: the rest of onChange, lines 170-182.
ReadResolve(i) ==
    /\ i \in 1..Len(reads)
    /\ LET r == ReadStyle(reads[i].parser, reads[i].v) IN
       /\ invalidMessage' =
            CASE r.kind = "errors" -> JoinMessages(r.errors)
              [] r.kind = "reject" -> r.message
              [] OTHER -> invalidMessage
       /\ IF OnChangeNotifies(r.kind)
          THEN OnStyleChange(r.output)
          ELSE UNCHANGED <<onStyleChangeCount, lastStyleChange>>
    /\ reads' = Remove(reads, i)
    /\ UNCHANGED <<style, defaultParser, activeParser, isSldParser, value,
                   hasError, previousStyle, previouseParser, symbolizerUnits,
                   timers, nextTimer, writes, registry, externals>>
    /\ editTimeout' = IF StateChanged THEN 0 ELSE editTimeout

\* A writeStyle promise settles: the rest of updateValueFromStyle, lines
\* 134-147.
WriteResolve(i) ==
    /\ i \in 1..Len(writes)
    /\ LET w == writes[i]
           r == WriteStyle(w.parser, w.units, w.style) IN
       /\ value' = IF r.kind = "ok" THEN r.output ELSE value
       /\ hasError' = IF WriteSetsError(r.kind) THEN TRUE ELSE hasError
    /\ writes' = Remove(writes, i)
    /\ UNCHANGED <<style, defaultParser, activeParser, isSldParser,
                   invalidMessage, previousStyle, previouseParser,
                   symbolizerUnits, timers, nextTimer, reads,
                   onStyleChangeCount, lastStyleChange, registry, externals>>
    /\ editTimeout' = IF StateChanged THEN 0 ELSE editTimeout

Next ==
    \/ \E s \in Styles : HostRender(s)
    \/ \E selection \in ParserOptions : OnParserSelect(selection)
    \/ \E selection \in Units : OnUnitSelect(selection)
    \/ \E v \in UserTexts : HandleOnChange(v)
    \/ Tick
    \/ TimerFire
    \/ \E i \in 1..MaxEdits : ReadResolve(i)
    \/ \E i \in 1..MaxExternal + 1 : WriteResolve(i)

Spec == Init /\ [][Next]_vars

\* onParserSelect as a function of the `parsers` prop: the component mounted
\* by a host with any list of parsers, and the user (or a test) selecting
\* any title, listed or not.
SelectTitles ==
    {"GeoStyler Style", "Mapbox Style Parser"}
        \cup {Title(p) : p \in RegistryParsers}

InitSelect ==
    /\ registry \in Registries
    /\ externals = MaxExternal
    /\ Mounted

NextSelect == \E selection \in SelectTitles : OnParserSelect(selection)

SpecSelect == InitSelect /\ [][NextSelect]_vars

\* The editor with a user who commits the text the editor shows, unmodified
\* (handleOnChange(value)), or a text no format accepts.
RoundTripTexts == {value, JunkText}

NextRoundTrip ==
    \/ \E s \in Styles : HostRender(s)
    \/ \E selection \in ParserOptions : OnParserSelect(selection)
    \/ \E selection \in Units : OnUnitSelect(selection)
    \/ \E v \in RoundTripTexts : HandleOnChange(v)
    \/ Tick
    \/ TimerFire
    \/ \E i \in 1..MaxEdits : ReadResolve(i)
    \/ \E i \in 1..MaxExternal + 1 : WriteResolve(i)

SpecRoundTrip == Init /\ [][NextRoundTrip]_vars

\* The editor without keystrokes: styles passed by the host, selections,
\* and the writeStyle promises, each of which settles in the end.
InitRecover ==
    /\ registry = parsers
    /\ externals = MaxRecover
    /\ Mounted

NextRecover ==
    \/ \E s \in Styles : HostRender(s)
    \/ \E selection \in ParserOptions : OnParserSelect(selection)
    \/ \E selection \in Units : OnUnitSelect(selection)
    \/ \E i \in 1..MaxRecover + 1 : WriteResolve(i)

SpecRecover ==
    /\ InitRecover
    /\ [][NextRecover]_vars
    /\ WF_vars(\E i \in 1..MaxRecover + 1 : WriteResolve(i))


\* ------------------------------------------------------------ properties

NoMessage(m) == m \in {"", "undefined"}
InParsers(p) == \E i \in 1..Len(registry) : registry[i] = p

\* C1: a commit whose deserialize fails (readStyle resolves with errors,
\* readStyle rejects, or JSON.parse throws with no parser) does not call
\* onStyleChange and sets the inline message to the joined error text.
C1_FailedCommitIsolated ==
    [][/\ \A i \in 1..Len(reads) :
            (ReadResolve(i) /\ ReadStyle(reads[i].parser, reads[i].v).kind # "ok")
            => /\ onStyleChangeCount' = onStyleChangeCount
               /\ invalidMessage' =
                    IF ReadStyle(reads[i].parser, reads[i].v).kind = "errors"
                    THEN JoinMessages(ReadStyle(reads[i].parser, reads[i].v).errors)
                    ELSE ReadStyle(reads[i].parser, reads[i].v).message
       /\ (TimerFire /\ Head(timers).parser = NoParser
                     /\ JsonParse(Head(timers).v).kind # "ok")
            => /\ onStyleChangeCount' = onStyleChangeCount
               /\ invalidMessage' = JsonParse(Head(timers).v).message]_vars

\* C2: of keystrokes that follow one another within less than the quiet
\* interval only the last is committed: when a commit executes, no keystroke
\* that came before the committed one's timer was due is pending behind it.
C2_OneCommitPerBurst ==
    [][TimerFire =>
        \A j \in 2..Len(timers) : timers[j].left = DelayTicks]_vars

\* C3: a commit that was pending when the parser was switched is discarded:
\* it neither overwrites the value, nor sets an error message, nor calls
\* onStyleChange.
C3_ExternalChangeWins ==
    [][(TimerFire /\ Head(timers).parser # activeParser)
        => /\ value' = value
           /\ invalidMessage' = invalidMessage
           /\ reads' = reads
           /\ onStyleChangeCount' = onStyleChangeCount]_vars

\* C4: the result of a writeStyle that is not the most recently issued
\* serialization (its style, parser or units are no longer the current ones)
\* and that resolves after every later one, is not written to the value.
C4_StaleWriteSuppressed ==
    [][\A i \in 1..Len(writes) :
        (/\ WriteResolve(i)
         /\ i = Len(writes)
         /\ \/ writes[i].parser # activeParser
            \/ writes[i].style # style.val
            \/ writes[i].units # symbolizerUnits[writes[i].parser])
        => value' = value]_vars

\* C5: a serialization that fails, by an error list or by a rejection, raises
\* the fault flag.
C5_FailedWriteRaisesFault ==
    [][\A i \in 1..Len(writes) :
        (/\ WriteResolve(i)
         /\ WriteStyle(writes[i].parser, writes[i].units, writes[i].style).kind # "ok")
        => hasError']_vars

\* C6: a serialization that succeeds replaces the value by its output and
\* leaves the state clean: no fault and no inline error message.
C6_WriteSuccessIsClean ==
    [][\A i \in 1..Len(writes) :
        (/\ WriteResolve(i)
         /\ WriteStyle(writes[i].parser, writes[i].units, writes[i].style).kind = "ok")
        => /\ value' = WriteStyle(writes[i].parser, writes[i].units,
                                  writes[i].style).output
           /\ ~hasError'
           /\ NoMessage(invalidMessage')]_vars

\* C7: the change effect serializes exactly when the style or the active
\* parser of a render differs by content from that of the previous render;
\* a new style object of equal content triggers no serialization.
SerializeIssued ==
    \/ Len(writes') = Len(writes) + 1
    \/ activeParser' = NoParser /\ value' = JsonStringify(style'.val) /\ ~hasError'
NothingSerialized == writes' = writes /\ value' = value /\ hasError' = hasError

C7_SerializeOnlyOnValueChange ==
    [][/\ \A s \in Styles :
            HostRender(s) =>
                IF s.val = style.val THEN NothingSerialized ELSE SerializeIssued
       /\ \A sel \in ParserOptions :
            OnParserSelect(sel) =>
                IF activeParser' = activeParser THEN NothingSerialized
                ELSE SerializeIssued]_vars

\* C7 witness: a parser is active, nothing is pending, and the host passing
\* a new style object of the content already shown is a step that serializes
\* nothing.
C7_Witness ==
    /\ activeParser # NoParser
    /\ writes = <<>>
    /\ value = WriteStyle(activeParser, UnitsOf(activeParser), style.val).output
    /\ ENABLED (HostRender([val |-> style.val, ref |-> 1]) /\ NothingSerialized)

\* C8 as claimed: every keystroke sets the value to the typed text at once.
C8_KeystrokeSetsValue ==
    [][\A v \in UserTexts : HandleOnChange(v) => value' = v]_vars

\* C8 as amended: a keystroke leaves the value as it is and calls neither
\* readStyle nor onStyleChange; the value becomes the typed text when the
\* debounced commit executes.
C8_ValueSetOnCommit ==
    [][/\ \A v \in UserTexts :
            HandleOnChange(v) =>
                /\ value' = value
                /\ reads' = reads
                /\ invalidMessage' = invalidMessage
                /\ onStyleChangeCount' = onStyleChangeCount
       /\ TimerFire => value' = Head(timers).v]_vars

\* C8 witness: a keystroke is pending and the value is not its text.
C8_Witness ==
    /\ timers # <<>>
    /\ timers[1].v # value
    /\ reads = <<>>

\* C9: a commit whose deserialize fails leaves the value the committed text:
\* the commit sets it, and the failure path does not touch it.
C9_FailedCommitKeepsText ==
    [][/\ (TimerFire /\ Head(timers).parser = NoParser
                     /\ JsonParse(Head(timers).v).kind # "ok")
            => value' = Head(timers).v
       /\ (TimerFire /\ Head(timers).parser # NoParser)
            => value' = Head(timers).v
       /\ \A i \in 1..Len(reads) :
            (ReadResolve(i) /\ ReadStyle(reads[i].parser, reads[i].v).kind # "ok")
            => value' = value]_vars

\* C9 witness: a commit of a text the parser rejects has failed, and the
\* value is that text.
C9_Witness ==
    /\ invalidMessage = "XML parse error"
    /\ value = JunkText
    /\ reads = <<>>

Registered(title) == \E i \in 1..Len(registry) : Title(registry[i]) = title

C11_SelectResolvesTitle ==
    [][\A title \in SelectTitles :
        OnParserSelect(title) =>
            /\ title = "GeoStyler Style" => activeParser' = NoParser
            /\ ~Registered(title) => activeParser' = NoParser
            /\ Registered(title) =>
                    /\ InParsers(activeParser')
                    /\ Title(activeParser') = title]_vars

\* C12: in every settled state (no timer pending, no writeStyle or readStyle
\* in flight) the value is the serialization of the style under the active
\* parser (the pretty-printed JSON with no parser), or an inline error
\* message is set, or the fault is raised.
Settled == timers = <<>> /\ writes = <<>> /\ reads = <<>>

ValueIsSerialization ==
    IF activeParser = NoParser
    THEN value = JsonStringify(style.val)
    ELSE LET r == WriteStyle(activeParser, UnitsOf(activeParser), style.val)
         IN  r.kind = "ok" /\ value = r.output

C12_SettledValueIsSerialization ==
    Settled => \/ ValueIsSerialization
               \/ ~NoMessage(invalidMessage)
               \/ hasError

\* C13: a commit of a text that writeStyle of the committing parser produced
\* for a style S (JSON.stringify with no parser) calls onStyleChange once,
\* with S, and leaves no inline error message.
IsSerialization(p, t) ==
    IF p = NoParser
    THEN \E s \in StyleVals : t = JsonStringify(s)
    ELSE \E s \in StyleVals, u \in Units :
            /\ WriteStyle(p, u, s).kind = "ok"
            /\ WriteStyle(p, u, s).output = t

C13_RoundTrip ==
    [][/\ \A i \in 1..Len(reads) :
            (ReadResolve(i) /\ IsSerialization(reads[i].parser, reads[i].v))
            => /\ onStyleChangeCount' = onStyleChangeCount + 1
               /\ lastStyleChange' = reads[i].v.body
               /\ NoMessage(invalidMessage')
       /\ (TimerFire /\ Head(timers).parser = NoParser
                     /\ IsSerialization(NoParser, Head(timers).v))
            => /\ onStyleChangeCount' = onStyleChangeCount + 1
               /\ lastStyleChange' = Head(timers).v.body
               /\ NoMessage(invalidMessage')]_vars

\* C14: at most one timer of handleOnChange is pending at any time.
C14_SingleTimer == Len(timers) <= 1

\* C15: when the readStyle of a commit resolves after a later commit has
\* executed and its readStyle has resolved, the result is discarded: the
\* inline message and the last onStyleChange call stay those of the later
\* commit.
\* The texts only a keystroke can put into the value: no writeStyle and no
\* JSON.stringify produces them.
TypedOnly ==
    {t \in UserTexts :
        \A p \in {NoParser} \cup RegistryParsers : ~IsSerialization(p, t)}

\* The value is a typed text other than the one the i-th pending readStyle
\* decodes: a later commit has executed (setValue(v), line 165).
LaterCommitExecuted(i) == value \in TypedOnly /\ value # reads[i].v

C15_SupersededReadDiscarded ==
    [][\A i \in 1..Len(reads) :
        (ReadResolve(i) /\ Len(reads) = 1 /\ LaterCommitExecuted(i))
        => /\ invalidMessage' = invalidMessage
           /\ onStyleChangeCount' = onStyleChangeCount
           /\ lastStyleChange' = lastStyleChange]_vars

\* C16: a commit decodes its text under the parser that is active when the
\* commit executes: readStyle of the active parser, or JSON.parse when no
\* parser is active.
C16_CommitUsesActiveParser ==
    [][TimerFire =>
        IF activeParser = NoParser
        THEN reads' = reads
        ELSE reads' = Append(reads, [parser |-> activeParser,
                                     v |-> Head(timers).v])]_vars

\* C17: a unit selection with a parser active writes the selection into the
\* symbolizerUnits of the active parser object itself, leaves the active
\* parser the same object, and issues exactly one writeStyle of the current
\* style with the new units; and once no writeStyle is pending any more
\* (and the user typed nothing), the value is the serialization of the
\* style under the units selected.
UnitSelectInPlace(selection) ==
    /\ activeParser' = activeParser
    /\ symbolizerUnits' =
            [symbolizerUnits EXCEPT ![activeParser] = selection]
    /\ writes' = Append(writes, [parser |-> activeParser,
                                 style |-> style.val, units |-> selection])

UnitSelectSettled ==
    (/\ activeParser # NoParser
     /\ symbolizerUnits[activeParser] # "pixel"
     /\ writes = <<>>
     /\ nextTimer = 1
     /\ WriteStyle(activeParser, UnitsOf(activeParser), style.val).kind = "ok")
    => value = WriteStyle(activeParser, UnitsOf(activeParser), style.val).output

C17_UnitSelectReserializes ==
    [][/\ \A selection \in Units :
            (OnUnitSelect(selection) /\ activeParser # NoParser)
            => UnitSelectInPlace(selection)
       /\ UnitSelectSettled']_vars

\* C18: in every render, the one right after a parser switch included, the
\* unit select is shown only if a parser is active, its title contains
\* 'SLD' and its sldVersion is not '1.0.0'.
UnitSelectAllowed(p) ==
    p # NoParser /\ TitleIncludesSLD(p) /\ SldVersion(p) # "1.0.0"

C18_UnitSelectOnlyForSld ==
    [][/\ RenderedUnitSelect => UnitSelectAllowed(activeParser')
       /\ ParserHasUnitSelect' => UnitSelectAllowed(activeParser')]_vars

\* C19: once the fault has been shown, an external change after it whose
\* serialization succeeds (the newest writeStyle pending is the one of the
\* current style, parser and units, and it resolves with an output) leads
\* to a state where the fault is cleared and the value is that output,
\* unless the style, parser or units are changed again before.
IsCurrent(p, u, s) ==
    activeParser = p /\ style.val = s /\ UnitsOf(p) = u

Recovering(p, u, s) ==
    /\ ~hasError
    /\ writes # <<>>
    /\ writes[Len(writes)] = [parser |-> p, style |-> s, units |-> u]
    /\ IsCurrent(p, u, s)
    /\ WriteStyle(p, u, s).kind = "ok"

Recovered(p, u, s) ==
    ~hasError /\ value = WriteStyle(p, u, s).output

C19_FaultRecovers ==
    \A p \in ParserInstances, u \in Units, s \in StyleVals :
        [](hasError =>
            [](Recovering(p, u, s) =>
                <>(Recovered(p, u, s) \/ ~IsCurrent(p, u, s))))

\* C20: a writeStyle that resolves with a non-empty error list raises the
\* fault and leaves the value and the inline message as they are; a style
\* passed by the host, a parser selection, a unit selection and a settling
\* writeStyle never call onStyleChange: every step that calls it is a commit
\* (the timer's onChange or its continuation after readStyle).
OnStyleChangeNotCalled ==
    /\ onStyleChangeCount' = onStyleChangeCount
    /\ lastStyleChange' = lastStyleChange

C20_FailedWriteFrame ==
    [][/\ \A i \in 1..Len(writes) :
            (/\ Len(writes') < Len(writes)
             /\ WriteStyle(writes[i].parser, writes[i].units,
                           writes[i].style).kind = "errors"
             /\ WriteResolve(i))
            => /\ hasError'
               /\ value' = value
               /\ invalidMessage' = invalidMessage
       /\ ~OnStyleChangeNotCalled
            => (TimerFire \/ \E i \in 1..Len(reads) : ReadResolve(i))]_vars

\* C20 witness: a writeStyle has failed with an error list after an earlier
\* one had set the value: the fault is raised, the value is still the earlier
\* output, there is no inline message and onStyleChange was never called.
C20_Witness ==
    /\ hasError
    /\ writes = <<>>
    /\ activeParser # NoParser
    /\ WriteStyle(activeParser, UnitsOf(activeParser), style.val).kind = "errors"
    /\ value \in {QmlText(s) : s \in StyleVals}
    /\ invalidMessage = ""
    /\ onStyleChangeCount = 0

====
